CONSTANTS
  None = None
  Star = Star
  AnyPart <- Star
  StreamIds <- MCStreamIds
  RecordTypes <- MCRecordTypes
  Timestamps <- MCTimestamps
  MaxRecords = 3
  AutoModes = {TRUE}
  Patterns <- MCPatterns
  TypeArgs <- MCTypeArgs
  TimeArgs <- MCTimeArgs
  Epsilons <- MCEpsilons
  Positions <- MCPositions
  StreamArgs <- MCStreamArgs
SPECIFICATION Spec
INVARIANT NeighborAnchorIsAbsolute
