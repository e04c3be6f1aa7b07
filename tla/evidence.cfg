SPECIFICATION EvidenceSpec
CONSTANTS
  SIZE = 2
  U64MAX = 6
  AllowZeroNonce = TRUE
  Contexts <- MCContexts
  Holder <- MCHolder
  MAX_LOGICAL = 1
  MAX_DEPTH = 2
  MaxRequests = 7
  N = 4
  Body = {"create", "destroy"}
  Hash <- MCHash
  Digest <- MCDigest
  ChainHash <- MCChainHash
  Fold <- MCFold
  MaxSequence = 9
  RingAppends = 7
  Measurement = {"m"}
  Partition32 = {1, 2}
  RecordBody = {"b1", "b2"}
  RecordLink = {"l1", "l2"}
  Byte = {0, 1}
  MAX_DATA = 2
  Word32 = 2
  LinkValue = {1, 3}
  MAX_LINKS = 2
  GateDigest = {d1, d2}
  EpochRange = {0, 1, 2}
  MAX_ATTESTATION_ENTRIES = 2
  MaxGateCalls = 2
  GateRequests <- MCGateRequests
  k1 = k1
  AnchorKey = {k1, k2}
  TrustedKey = {k1}
  Samples <- MCSamples
  Lifts = {2}
  Regressions = {0}
  MIN_LIFT = 2
  Gates <- MCGates
  Terms <- MCTerms
  ApprovedAttestor = {k1}
  NoAttestor = NoAttestor
  Expiries = {1}
  Seeds = {1}
  ITERATIONS = 3
  MIN_ITERATIONS = 1
  WIDTH = 16
  Caller = {1, 2}
  MaxAnchored = 3
  AnchorCapacity = 2
  Unsigned = Unsigned
  MaxTokens = 9
INVARIANTS
  ReplayNeedsCollision
  NoncesFair
  RingHoldsNewest
  LogReads
  SignedEvidence
  AnchoredEvidence
CHECK_DEADLOCK FALSE
