SPECIFICATION ContextSpec
CONSTANTS
  N = 4
  Body <- MCBody
  Hash <- MCHash
  Digest <- MCDigest
  ChainHash <- MCChainHash
  Fold <- MCFold
  MaxSequence = 9
  MaxUnsealed = 2
  MaxEpochRecords = 4
  MaxRestarts = 1
  AuthorityName = {"a.b"}
  Slug = {"a"}
  SegmentName = {"a", "B"}
  UriRevision = {"r1", "r2"}
  Bytes <- MCBytes
  UriText <- MCUriTexts
  MAX_URI_BYTES = 47
  MAX_PATH_SEGMENTS = 2
  MAX_PATH_BYTES = 3
  Query <- MCQuery
  Document <- MCDocument
  HitUri = {1, 2, 3}
  SearchLimit = {1, 2}
  r1 = r1
  r2 = r2
  o1 = o1
  o2 = o2
  s1 = s1
  Space = {s1}
  SkillSpace = {s1}
  Path <- MCPath
  ContextRevision = {r1, r2}
  Owner = {o1, o2}
  PageActor = o1
  ExecutableRevision = {r1}
  OperationSets <- MCOperations
  MaxPageCalls = 7
  NoRevision = NoRevision
  NoView = NoView
  GrantRights <- MCRights
  GrantViews <- MCViews
  C = 4
  G = 3
  MaxGrantDepth = 1
  MAX_ENUM_RESULTS = 2
  MaxTokens = 4
  MaxEpochs = 1
  OBJECTS = 4
  ALIASES = 2
  MatchScore <- MCScore
  MaxGeneration = 3
  Payload = {"d1", "d2", "d3"}
  RefusedMeta = {"d3"}
  RefusedModule = {"d3"}
  ZeroDigest = "zero"
  SegmentId = {0, 1, 2}
  MAX_VIEWS = 3
  MaxSegments = 4
  MAX_CONTEXT_RVF = 5
  AnySegment <- MCSegment
  AnyRequest <- MCRequest
  KeyIds = {"k1", "k2"}
  Tenant = {"t1", "t2"}
  Aad = {"a1", "a2"}
  PlainLen = {0, 2}
  TAG_BYTES = 1
  MAX_KEY_ID = 2
  MAX_WRAPPED = 4
  MaxLen = 4
  MaxDamage = 3
INVARIANTS
  StoreSound
  CursorSound
  UriSound
  ContextSound
  RevokedBranchesEnd
  PackagesReadBack
PROPERTIES
  AliasesAreARegister
CHECK_DEADLOCK FALSE
