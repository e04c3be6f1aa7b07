SPECIFICATION ServicesSpec
CONSTANTS
  N = 3
  U32MAX = 4
  GRANT = GRANT
  GRANT_ONCE = GRANT_ONCE
  Rights = {GRANT, GRANT_ONCE}
  RightsChoices = {{GRANT, GRANT_ONCE}, {GRANT_ONCE}}
  MaxDepth = 2
  MaxId = 5
  MaxEpoch = 1
  LogicalName = {n1, n2}
  StoredRevision = {r1}
  PlainView = PlainView
  DClient = {c1}
  KeyId = {1}
  NoHead = NoHead
  max_objects = 2
  max_aliases = 2
  LastGeneration = 3
  QUEUE = 3
  MaxFed = 4
  Conn = {c1, c2}
  AnyPost <- MCPosts
  MAX_CONNECTIONS = 1
  MAX_BODY_BYTES = 2
  FrameLen = {1, 2}
  AllowWrites = TRUE
  MaxEffects = 3
  CounterMax = 4
  Delay = {0, 2, 5}
  Irq = {26, 33, 1021}
  MAX_IRQ = 1020
  TIMER_IRQ = 26
INVARIANTS
  AuthoritySound
  TreeSound
  ServicesSound
PROPERTIES
  DurableAliasesAreARegister
  NobodyWaitsForEver
CHECK_DEADLOCK FALSE
