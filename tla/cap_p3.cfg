SPECIFICATION Spec
CONSTANTS
  N = 3
  U32MAX = 4
  GRANT = GRANT
  GRANT_ONCE = GRANT_ONCE
  Rights = {GRANT, GRANT_ONCE}
  RightsChoices = {{GRANT}}
  MaxDepth = 2
  MaxId = 6
  MaxEpoch = 0
INVARIANT P3Sound
CHECK_DEADLOCK FALSE
