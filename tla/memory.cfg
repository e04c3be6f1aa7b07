SPECIFICATION MemorySpec
CONSTANTS
  MAX_PARTITIONS = 2
  ENGINE_MAX_NODES = 1
  MAX_EDGES = 1
  QUEUE_SIZE = 1
  Cpu = {0}
  MAX_RUN_QUEUE = 1
  MAX_DEVICES = 1
  MAX_LEASES = 2
  KernelRegion = {1}
  Tiers = {0, 1}
  MaxId = 2
  MaxEdgeId = 2
  MaxLeaseId = 2
  MaxKernelEpoch = 1
  TOTAL_PAGES = 16
  MAX_ORDER = 3
  WORD = 8
  MaxRegions = 3
  RegionOwner = {p1, p2}
  GuestPage = {0, 1}
  HostPage = {0, 1, 2}
  PageCount = {1, 2}
  RegionId = {1, 2}
  MaxNextId = 2
  MaxTiered = 2
  MaxScore = 10
  Boost = 1
  Midpoint = 5
  DecayAmount = {1, 2}
  MaxEpoch = 1
  hot_to_warm = 7
  warm_to_dormant = 4
  dormant_to_cold = 1
  warm_to_hot = 8
  dormant_to_warm = 5
  RegionSize = 3
  Byte = {0, 2}
  MaxRun = 2
  MAX_DELTAS = 2
  MaxSequence = 2
  Limit = 3
  AmountWord = 5
  Amount = {0, 1, 3, 4}
  max_depth = 2
  MaxSubmitted = 3
  MaxActive = 3
  QuotaPartition = {p1, p2}
  MaxQuotas = 1
  QuotaMax = 1
  CpuWord = 3
  CountWord = 3
  UseAmount = {1, 2}
  QuotaCaller = {c1, c2}
  NoCheck = NoCheck
  deadline_ns = 1
  MaxNow = 2
  Vm = {v1, v2}
  L1Entries = 2
  L2Entries = 2
  MAX_L2_TABLES = 1
  Frame = {0}
  GuestReg = {g1, g2}
INVARIANTS
  KernelSound
  MemorySound
  QuotasHold
  StageTwoSound
PROPERTIES
  NewPartitionIsFresh
  NoThrash
  
CHECK_DEADLOCK FALSE
