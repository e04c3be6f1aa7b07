SPECIFICATION Spec
CONSTANTS
  N = 3
  U32MAX = 4
  GRANT = GRANT
  GRANT_ONCE = GRANT_ONCE
  Rights = {GRANT, GRANT_ONCE}
  RightsChoices = {{GRANT}}
  MaxDepth = 2
  MaxId = 5
  MaxEpoch = 0
INVARIANT RevokeExact
CHECK_DEADLOCK FALSE
