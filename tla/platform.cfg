SPECIFICATION PlatformSpec
CONSTANTS
  Partition = {p1, p2}
  MAX_EDGES = 2
  QUEUE_SIZE = 2
  MaxEdgeId = 4
  MaxSent = 4
  GraphPartition = {1, 2, 3}
  MAX_NODES = 2
  GRAPH_EDGES = 2
  NODE_INDEX_SIZE = 2
  CommWeight = {0, 1, 2}
  MaxWeight = 3
  EDGE_DECAY_BP = 500
  SPLIT_THRESHOLD_BP = 8000
  MERGE_COHERENCE_THRESHOLD_BP = 4000
  NoPartition = NoPartition
  CutNode = {0, 1, 2}
  CutWeight = {0, 1, 3}
  MINCUT_MAX_NODES = 3
  IterationBudget = {0, 1, 9}
  Unbounded = 1000
  MaxQueries = 2
  MAX_CPUS = 3
  cpu_count = 2
  MAX_RUN_QUEUE = 5
  Runnable = {7}
  Urgency = {0, 1}
  Pressure = {1, 5}
  FixedOne = 2
  U16Max = 2
  SchedulerMode = {"Flow", "Recovery"}
  MaxTicks = 2
  EpochWrap = 2
  BOOT_STAGE_COUNT = 7
  HalStages = {1, 2, 3}
  HardwareDetect = 1
  FirstWitness = 5
  RamSize = 128
  MaxRuns = 3
INVARIANTS
  CoherenceSound
  IdleCpusAreFound
  AttestedIsWhatRan
PROPERTIES
  Refinement
  ServesMostUrgent
CHECK_DEADLOCK FALSE
