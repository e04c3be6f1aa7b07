SPECIFICATION PackagesSpec
CONSTANTS
  Session = {s1, s2}
  Epoch = {0, 1, 2}
  Hash = {h1, h2}
  Tries = 2
  MaxTaken = 2
  Seg <- MCSeg
  Chunks <- MCChunks
  Stage <- MCStage
  Requires <- MCRequires
  Wasm <- MCWasm
  IdentityPresent = TRUE
  max_table_bytes = 5
  max_open = 2
  fault_budget = 2
  duplicate_cap = 2
  MaxInstalls = 2
  SegmentIds = {1, 2}
  StoredLen = {0, 2, 3}
  TableStages = {0, 1, 2}
  ChunkSizes = {2}
  SegmentChunks = 0
  MIN_STORED = 2
  ROOT_PAGE = 3
  MAX_SEGMENT = 3
  MAX_TABLE = 3
  MAX_CHUNKS = 3
  BUDGET = 15
  MAX_BODY = 5
  MaxEntries = 3
  Orders = {"File", "Stage"}
  IdentityFlag = {TRUE}
  HEADER = 2
  ALIGN = 2
  PAGE = 4
  MAX_SEGMENTS = 2
  MAX_PAYLOAD = 2
  MAX_SIGNATURE = 1
  PayloadLength = {0, 1, 3}
  SignatureLength = {1, 2}
  MaxCells = 7
  k1 = k1
  k2 = k2
  Payload <- MCPayload
  Key = {k1, k2}
  trusted_keys = {k1}
  SegType = {"wasm", "meta", "manifest"}
  Policy <- MCPolicy
  NoIdentity = NoIdentity
  NoSignature = NoSignature
  MAX_BYTES = 10
  SLOTS = 3
  MaxSegments = 2
  MaxAlterations = 1
  Encrypted = {FALSE}
  WasmByte = {0, 1, 2, 3, 4}
  Custom = 0
  order_rank <- MCRanks
  MaxLeb = 3
  ContinueBit = 2
  MAX_MODULE_SIZE = 5
  SectionWord = 3
  PayloadByte = {0, 1, 2}
  MAGIC <- MCMagic
  HEADER_LEN = 4
  MaxPayload = 7
  Module <- MCModule
  Chunk = {1, 2, 3, 4, 5, 6, 7, 8, 9, 10, 11}
  max_module_bytes = 11
  max_section_bytes = 3
  max_function_body_bytes = 2
  HEADER_SLACK = 2
  policy_limit <- MCLimits
  import_policy <- MCImports
  UNBOUNDED_MEMORY_PAGES = 3
  NoMaximum = NoMaximum
  AnyField = "AnyField"
  Instance = {"i1", "i2"}
  LaunchSession = {"s1"}
  HostClass = {"network"}
  Report <- MCReport
  SegmentIndex = {1, 65540}
  UsedAdapter <- MCAdapter
  BadModule = {"bad"}
  Partition = {p1}
  MaxAgents = 2
  CapIndex = {1, 2}
  MaxLog = 14
  ShortLog = 6
  MaxGeneration = 2
  Action <- MCAction
  Time = {0, 1, 2, 3}
  Attempts = 4
  Limit = 2
  Window = 2
  MaxSequence = 4
INVARIANTS
  SessionSound
  PinsSound
  StreamsAgree
  ContainerSound
  WasmVerdictsHold
  LaunchSound
  BrokerSound
PROPERTIES
  CompleteIsFinal
  PinMovesForward
  DischargeLeavesNothing
CHECK_DEADLOCK FALSE
