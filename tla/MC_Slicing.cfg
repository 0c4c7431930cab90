CONSTANTS
  None = None
  MaxLen = 5
  Bounds <- MCBounds
  Steps <- MCSteps
  MaxChain = 2
SPECIFICATION Spec
INVARIANT TypeOK
